---- MODULE Spec2Model ----
(***************************************************************************)
(* Model of vector.py: a TF-IDF / cosine-similarity document search.       *)
(*                                                                         *)
(* main() loads three line-oriented files into module-level dictionaries,  *)
(* derives DOC_FREQ and LENGTH, then answers one query with search().      *)
(*                                                                         *)
(* Conventions of the model                                                *)
(*   - a file is a sequence of lines, a line is the sequence of its        *)
(*     space-separated tokens, a token is a string;                        *)
(*   - a dict is a function whose DOMAIN is the key set; a defaultdict     *)
(*     read of a missing key is modelled at each place the code does it;   *)
(*   - the source is Python 2 (print statements, raw_input, builtin        *)
(*     reduce): "/" on two ints is floor division;                         *)
(*   - a float is a double with its exact mantissa and exponent, and      *)
(*     every operation on floats rounds as IEEE 754 does;                  *)
(*   - a raised exception is recorded in "error" and ends the process.     *)
(***************************************************************************)
EXTENDS Integers, Sequences, FiniteSets, TLC

VARIABLES docsFile, wordsFile, postingsFile,
          pc, error,
          N, WORDS_DICTIONARY, REV_INDEX, DOC_FREQ, LENGTH, DOCS,
          raw_query, query, relevant_docs, scores, output, outcome

vars == <<docsFile, wordsFile, postingsFile, pc, error,
          N, WORDS_DICTIONARY, REV_INDEX, DOC_FREQ, LENGTH, DOCS,
          raw_query, query, relevant_docs, scores, output, outcome>>

files == <<docsFile, wordsFile, postingsFile>>
tables == <<N, WORDS_DICTIONARY, REV_INDEX, DOC_FREQ, LENGTH, DOCS>>
locals == <<raw_query, query, relevant_docs, scores, output, outcome>>

----------------------------------------------------------------------------
(* Bounds of the model *)

\* DocIDs that appear in the postings file are "1" .. MaxDocs
MaxDocs == 3
\* number of lines of the longest document file
MaxNames == 6
\* raw term frequencies in the postings file are 1 or MaxFreq
MaxFreq == 2
\* number of whitespace-separated words typed at the prompt
MaxQueryLen == 3
\* number of lines of a raw (possibly malformed) postings file
MaxLines == 3

----------------------------------------------------------------------------
(* Generic helpers: dicts and tokens *)

EmptyDict == [x \in {} |-> 0]

Range(f) == {f[k] : k \in DOMAIN f}

DictSet(d, k, v) == [x \in (DOMAIN d) \cup {k} |-> IF x = k THEN v ELSE d[x]]

\* the decimal numerals the input files use, Digits[i + 1] is str(i)
Digits == <<"0", "1", "2", "3", "4", "5", "6", "7", "8", "9">>

DocNames == <<"doc1", "doc2", "doc3", "doc4", "doc5", "doc6", "doc7", "doc8", "doc9">>

\* int(s): the integer a numeral denotes; any other token raises ValueError
IsInt(tok) == \E i \in 1..Len(Digits) : Digits[i] = tok

int(tok) == (CHOOSE i \in 1..Len(Digits) : Digits[i] = tok) - 1

\* word_id before the first header line of the postings file (Python None)
NoneKey == "None"

\* exception texts
ValueErrorUnpack == "ValueError: unpack"
ValueErrorInt == "ValueError: invalid literal for int()"
ValueErrorLog == "ValueError: math domain error"
IntDivZero == "ZeroDivisionError: integer division or modulo by zero"
FloatDivZero == "ZeroDivisionError: float division by zero"
KeyErrorName == "KeyError"

Ok(v) == [exc |-> "", val |-> v]
Raise(e) == [exc |-> e, val |-> [exp |-> 0, man |-> <<>>]]

----------------------------------------------------------------------------
(* Loaders *)

\* the loop of init_words_id_dict / init_docs_dict from line i on:
\* (key, val) = line.split() raises ValueError unless there are exactly two
\* tokens; the entries stored before the bad line stay in the dict
RECURSIVE LoadMapping(_, _, _)
LoadMapping(lines, i, dict) ==
    IF i > Len(lines) THEN [exc |-> "", dict |-> dict]
    ELSE IF Len(lines[i]) # 2 THEN [exc |-> ValueErrorUnpack, dict |-> dict]
    ELSE LoadMapping(lines, i + 1, DictSet(dict, lines[i][1], lines[i][2]))

\* REV_INDEX[word_id][doc] = freq on a defaultdict(dict)
RevIndexPut(idx, word_id, doc, freq) ==
    DictSet(idx, word_id,
            DictSet(IF word_id \in DOMAIN idx THEN idx[word_id] ELSE EmptyDict,
                    doc, freq))

\* the loop of init_reverse_index from line i on: a one-token line sets the
\* current word_id, any longer line stores int(token 2) under token 1
RECURSIVE LoadReverseIndex(_, _, _, _)
LoadReverseIndex(lines, i, word_id, idx) ==
    IF i > Len(lines) THEN [exc |-> "", idx |-> idx]
    ELSE IF Len(lines[i]) = 1
         THEN LoadReverseIndex(lines, i + 1, lines[i][1], idx)
    ELSE IF ~IsInt(lines[i][2]) THEN [exc |-> ValueErrorInt, idx |-> idx]
    ELSE LoadReverseIndex(lines, i + 1, word_id,
                          RevIndexPut(idx, word_id, lines[i][1], int(lines[i][2])))

\* REV_INDEX after init_doc_freq: reading REV_INDEX[word] of a defaultdict
\* inserts an empty dict for every vocabulary TermID that had no entry
RevIndexTouched ==
    [t \in (DOMAIN REV_INDEX) \cup Range(WORDS_DICTIONARY) |->
        IF t \in DOMAIN REV_INDEX THEN REV_INDEX[t] ELSE EmptyDict]

\* DocFreqTable with len(REV_INDEX) in place of len(REV_INDEX[word])
DocFreqTable_keys ==
    [word \in Range(WORDS_DICTIONARY) |-> Cardinality(DOMAIN RevIndexTouched)]

\* DOC_FREQ after init_doc_freq: one entry per value of WORDS_DICTIONARY
DocFreqTable ==
    [word \in Range(WORDS_DICTIONARY) |-> Cardinality(DOMAIN RevIndexTouched[word])]

----------------------------------------------------------------------------
(* Arithmetic on non-negative integers of any size *)

\* a big integer is the sequence of its digits in base Base, lowest digit
\* first and no zero digit last; <<>> is 0
LimbBits == 15

Base == 2^LimbBits

RECURSIVE BigNorm(_)
BigNorm(a) ==
    IF a = <<>> THEN a
    ELSE IF a[Len(a)] = 0 THEN BigNorm(SubSeq(a, 1, Len(a) - 1)) ELSE a

Limb(a, i) == IF i <= Len(a) THEN a[i] ELSE 0

RECURSIVE BigFromInt(_)
BigFromInt(n) == IF n = 0 THEN <<>> ELSE <<n % Base>> \o BigFromInt(n \div Base)

RECURSIVE BigAddFrom(_, _, _, _, _)
BigAddFrom(a, b, i, carry, acc) ==
    IF i > Len(a) /\ i > Len(b)
    THEN (IF carry = 0 THEN acc ELSE Append(acc, carry))
    ELSE LET s == Limb(a, i) + Limb(b, i) + carry
         IN BigAddFrom(a, b, i + 1, s \div Base, Append(acc, s % Base))

BigAdd(a, b) == BigAddFrom(a, b, 1, 0, <<>>)

RECURSIVE BigSubFrom(_, _, _, _, _)
BigSubFrom(a, b, i, borrow, acc) ==
    IF i > Len(a) THEN BigNorm(acc)
    ELSE LET s == a[i] - Limb(b, i) - borrow
         IN IF s < 0 THEN BigSubFrom(a, b, i + 1, 1, Append(acc, s + Base))
            ELSE BigSubFrom(a, b, i + 1, 0, Append(acc, s))

\* a - b for a >= b
BigSub(a, b) == BigSubFrom(a, b, 1, 0, <<>>)

RECURSIVE BigLessFrom(_, _, _)
BigLessFrom(a, b, i) ==
    IF i = 0 THEN FALSE
    ELSE IF a[i] # b[i] THEN a[i] < b[i]
    ELSE BigLessFrom(a, b, i - 1)

BigLess(a, b) ==
    IF Len(a) # Len(b) THEN Len(a) < Len(b) ELSE BigLessFrom(a, b, Len(a))

RECURSIVE BigMulSmallFrom(_, _, _, _, _)
BigMulSmallFrom(a, k, i, carry, acc) ==
    IF i > Len(a) THEN (IF carry = 0 THEN acc ELSE Append(acc, carry))
    ELSE LET s == a[i] * k + carry
         IN BigMulSmallFrom(a, k, i + 1, s \div Base, Append(acc, s % Base))

\* a * k for a digit k
BigMulSmall(a, k) == IF k = 0 THEN <<>> ELSE BigMulSmallFrom(a, k, 1, 0, <<>>)

\* a * Base^n
BigShlLimbs(a, n) == IF a = <<>> THEN a ELSE [i \in 1..n |-> 0] \o a

RECURSIVE BigMulFrom(_, _, _, _)
BigMulFrom(a, b, i, acc) ==
    IF i > Len(b) THEN acc
    ELSE BigMulFrom(a, b, i + 1,
                    BigAdd(acc, BigShlLimbs(BigMulSmall(a, b[i]), i - 1)))

BigMul(a, b) == BigMulFrom(a, b, 1, <<>>)

\* a * 2^n
BigShl(a, n) == BigShlLimbs(BigMulSmall(a, 2^(n % LimbBits)), n \div LimbBits)

\* floor(a / 2^n)
BigShr(a, n) ==
    LET k == n \div LimbBits
        lo == 2^(n % LimbBits)
        hi == 2^(LimbBits - (n % LimbBits))
    IN IF k >= Len(a) THEN <<>>
       ELSE BigNorm([i \in 1..(Len(a) - k) |->
                       (a[i + k] \div lo) + (Limb(a, i + k + 1) % lo) * hi])

RECURSIVE BitLen(_)
BitLen(n) == IF n = 0 THEN 0 ELSE 1 + BitLen(n \div 2)

\* number of binary digits of a
BigBitLen(a) == IF a = <<>> THEN 0 ELSE (Len(a) - 1) * LimbBits + BitLen(a[Len(a)])

\* binary digit n of a, digit 0 is the lowest
BigBit(a, n) == (Limb(a, n \div LimbBits + 1) \div 2^(n % LimbBits)) % 2

\* one of the n lowest binary digits of a is set
BigLowBits(a, n) ==
    \/ \E i \in 1..(n \div LimbBits) : Limb(a, i) # 0
    \/ Limb(a, n \div LimbBits + 1) % 2^(n % LimbBits) # 0

\* a digit of the long division: the largest k with d * k <= r, counted down
\* from an estimate that the leading digits of r and d give
RECURSIVE DigitDown(_, _, _)
DigitDown(r, d, k) ==
    IF BigLess(r, BigMulSmall(d, k)) THEN DigitDown(r, d, k - 1) ELSE k

DivDigit(r, d) ==
    LET n == Len(d)
        est == (Limb(r, n + 1) * Base + Limb(r, n)) \div d[n]
    IN DigitDown(r, d, IF est > Base - 1 THEN Base - 1 ELSE est)

\* long division of a by d, from digit i of a down to digit 1: r is the
\* remainder so far and q the digits of the quotient so far; a step brings
\* digit i of a down to r and takes k times d off
RECURSIVE BigDivFrom(_, _, _, _, _)
RECURSIVE BigDivStep(_, _, _, _, _, _)
BigDivStep(a, d, i, r1, k, q) ==
    BigDivFrom(a, d, i - 1, BigSub(r1, BigMulSmall(d, k)), <<k>> \o q)

BigDivFrom(a, d, i, r, q) ==
    IF i = 0 THEN [quot |-> BigNorm(q), rem |-> r]
    ELSE LET r1 == BigNorm(<<a[i]>> \o r)
         IN BigDivStep(a, d, i, r1, DivDigit(r1, d), q)

\* floor(a / d) and a mod d for a d whose leading digit has its top bit set
BigDivNormal(a, d) == BigDivFrom(a, d, Len(a), <<>>, <<>>)

\* the result of a division whose operands were both multiplied by 2^s
BigUnscale(res, s) == [quot |-> res.quot, rem |-> BigShr(res.rem, s)]

\* floor(a / d) and a mod d for d # 0; both are first scaled so that the
\* leading digit of d has its top bit set
BigDivMod(a, d) ==
    LET s == LimbBits - BitLen(d[Len(d)])
    IN BigUnscale(BigDivNormal(BigShl(a, s), BigShl(d, s)), s)

\* floor(sqrt(a)): Newton's iteration, downwards from x >= sqrt(a); y is
\* the next iterate
RECURSIVE BigSqrtFrom(_, _)
RECURSIVE BigSqrtStep(_, _, _)
BigSqrtStep(a, x, y) == IF BigLess(y, x) THEN BigSqrtFrom(a, y) ELSE x

BigSqrtFrom(a, x) == BigSqrtStep(a, x, BigShr(BigAdd(x, BigDivMod(a, x).quot), 1))

BigSqrt(a) ==
    IF a = <<>> THEN a
    ELSE BigSqrtFrom(a, BigShl(<<1>>, (BigBitLen(a) + 1) \div 2))

\* the integer a hexadecimal numeral denotes, digits given highest first
RECURSIVE BigFromHex(_, _, _)
BigFromHex(digits, i, acc) ==
    IF i > Len(digits) THEN acc
    ELSE BigFromHex(digits, i + 1,
                    BigAdd(BigMulSmall(acc, 16), BigFromInt(digits[i])))

----------------------------------------------------------------------------
(* Floats: IEEE 754 binary64, the C double a Python float is *)

\* significant binary digits of a double
MantBits == 53

\* a float is 0.0 or man * 2^exp with man a big integer of exactly MantBits
\* binary digits; no value of the program is negative, infinite or subnormal
FloatZero == [exp |-> 0, man |-> <<>>]

\* the float nearest to m * 2^e, a tie going to the even mantissa
\* q is m without its drop lowest digits: q + 1 when the digits dropped are
\* more than half a unit of q, or half a unit and q is odd
RoundHalfEven(m, drop, q) ==
    IF /\ BigBit(m, drop - 1) = 1
       /\ (BigLowBits(m, drop - 1) \/ BigBit(q, 0) = 1)
    THEN BigAdd(q, <<1>>)
    ELSE q

\* the float q * 2^e for a rounded q, which has MantBits digits or is 2^MantBits
Renormalise(q, e) ==
    IF BigBitLen(q) > MantBits
    THEN [exp |-> e + 1, man |-> BigShr(q, 1)]
    ELSE [exp |-> e, man |-> q]

RoundToFloat(m, e) ==
    LET drop == BigBitLen(m) - MantBits
    IN IF m = <<>> THEN FloatZero
       ELSE IF drop <= 0 THEN [exp |-> e + drop, man |-> BigShl(m, 0 - drop)]
       ELSE Renormalise(RoundHalfEven(m, drop, BigShr(m, drop)), e + drop)

\* float(n) for an int n >= 0
float(n) == RoundToFloat(BigFromInt(n), 0)

\* a < b
float_lt(a, b) ==
    IF b.man = <<>> THEN FALSE
    ELSE IF a.man = <<>> THEN TRUE
    ELSE IF a.exp # b.exp THEN a.exp < b.exp
    ELSE BigLess(a.man, b.man)

\* a + b
float_add(a, b) ==
    IF a.man = <<>> THEN b
    ELSE IF b.man = <<>> THEN a
    ELSE LET e == IF a.exp < b.exp THEN a.exp ELSE b.exp
         IN RoundToFloat(BigAdd(BigShl(a.man, a.exp - e), BigShl(b.man, b.exp - e)), e)

\* a * b
float_mul(a, b) == RoundToFloat(BigMul(a.man, b.man), a.exp + b.exp)

\* quot with one more binary digit, set when quot is not the exact result
WithSticky(quot, exact) == BigAdd(BigShl(quot, 1), IF exact THEN <<>> ELSE <<1>>)

DivSticky(r) == WithSticky(r.quot, r.rem = <<>>)

\* a / b for b # 0.0: the quotient of the mantissas to MantBits + 3 digits
\* and one more digit that is set when the division leaves a remainder
float_div(a, b) ==
    IF a.man = <<>> THEN FloatZero
    ELSE RoundToFloat(DivSticky(BigDivMod(BigShl(a.man, MantBits + 3), b.man)),
                      a.exp - b.exp - MantBits - 4)

SqrtSticky(n, r) == WithSticky(r, BigMul(r, r) = n)

\* math.sqrt(a): the root of the mantissa, scaled by an even power of two,
\* and one more digit that is set when the root is not exact
math_sqrt(a) ==
    IF a.man = <<>> THEN FloatZero
    ELSE LET s == MantBits + 5 + ((a.exp + MantBits + 5) % 2)
             n == BigShl(a.man, s)
         IN RoundToFloat(SqrtSticky(n, BigSqrt(n)), (a.exp - s) \div 2 - 1)

\* the double 0x1.hhhhhhhhhhhhhp+p, digits is 1 followed by the thirteen h
HexFloat(digits, p) == [exp |-> p + 1 - MantBits, man |-> BigFromHex(digits, 1, <<>>)]

\* log(x) of the C library for x = 1 .. 9, the natural logarithm rounded to
\* a double (a document file of the model has at most nine lines)
libm_log ==
    << FloatZero,
       HexFloat(<<1, 6, 2, 14, 4, 2, 15, 14, 15, 10, 3, 9, 14, 15>>, -1),
       HexFloat(<<1, 1, 9, 3, 14, 10, 7, 10, 10, 13, 0, 3, 0, 11>>, 0),
       HexFloat(<<1, 6, 2, 14, 4, 2, 15, 14, 15, 10, 3, 9, 14, 15>>, 0),
       HexFloat(<<1, 9, 12, 0, 4, 1, 15, 7, 14, 13, 8, 13, 3, 3>>, 0),
       HexFloat(<<1, 12, 10, 11, 0, 11, 15, 10, 2, 10, 2, 0, 0, 2>>, 0),
       HexFloat(<<1, 15, 2, 2, 7, 2, 10, 14, 3, 2, 5, 10, 5, 7>>, 0),
       HexFloat(<<1, 0, 10, 2, 11, 2, 3, 15, 3, 11, 10, 11, 7, 3>>, 1),
       HexFloat(<<1, 1, 9, 3, 14, 10, 7, 10, 10, 13, 0, 3, 0, 11>>, 1) >>

\* math.log(x, 2) for an int x >= 1: log(x) / log(2), a division of doubles
RECURSIVE Log2From(_, _)
Log2From(logs, x) ==
    IF x > Len(logs) THEN <<>>
    ELSE <<float_div(logs[x], logs[2])>> \o Log2From(logs, x + 1)

math_log2 == Log2From(libm_log, 1)

----------------------------------------------------------------------------
(* Weighting *)

\* idf(word): math.log(N / DOC_FREQ[word], 2) for a vocabulary TermID, else 0.0.
\* N and DOC_FREQ[word] are ints, so the quotient is the floor quotient;
\* a zero divisor raises ZeroDivisionError, math.log(0, 2) raises ValueError
idf(word) ==
    IF word \in Range(WORDS_DICTIONARY)
    THEN LET df == IF word \in DOMAIN DOC_FREQ THEN DOC_FREQ[word] ELSE 0
         IN IF df = 0 THEN Raise(IntDivZero)
            ELSE IF N \div df = 0 THEN Raise(ValueErrorLog)
            ELSE Ok(math_log2[N \div df])
    ELSE Ok(FloatZero)

\* REV_INDEX[word] read through the defaultdict
RevIndexOf(word) == IF word \in DOMAIN REV_INDEX THEN REV_INDEX[word] ELSE EmptyDict

\* REV_INDEX[word][doc_id] * w for the result w of idf(word)
Weighted(freq, w) == IF w.exc # "" THEN w ELSE Ok(float_mul(float(freq), w.val))

\* importance with idf(word) evaluated before the posting is looked up
importance_eager(word, doc_id) ==
    IF idf(word).exc # "" THEN idf(word)
    ELSE IF doc_id \in DOMAIN RevIndexOf(word)
    THEN Weighted(RevIndexOf(word)[doc_id], idf(word))
    ELSE Ok(FloatZero)

\* importance(word, doc_id): raw frequency times idf when the posting
\* exists, else 0.0; idf is only evaluated when the posting exists
importance(word, doc_id) ==
    IF doc_id \in DOMAIN RevIndexOf(word)
    THEN Weighted(RevIndexOf(word)[doc_id], idf(word))
    ELSE Ok(FloatZero)

\* the orders a dict can be iterated in: every arrangement of its keys
KeyOrders(dict) ==
    {s \in [1..Cardinality(DOMAIN dict) -> DOMAIN dict] :
        \A i, j \in DOMAIN s : i # j => s[i] # s[j]}

\* pow(x, 2.0) of the C library, which is what x**2 calls, as pairs of x and
\* its result: one pair for every x > 0.0 that importance can return on the
\* files of the model, a frequency 1 .. 9 times math.log(q, 2) for q = 2 .. 9
libm_pow2 ==
    << << HexFloat(<<1, 0, 0, 0, 0, 0, 0, 0, 0, 0, 0, 0, 0, 0>>, 0),
          HexFloat(<<1, 0, 0, 0, 0, 0, 0, 0, 0, 0, 0, 0, 0, 0>>, 0) >>,
       << HexFloat(<<1, 9, 5, 12, 0, 1, 10, 3, 9, 15, 11, 13, 6, 9>>, 0),
          HexFloat(<<1, 4, 1, 8, 12, 11, 1, 9, 1, 6, 8, 3, 15, 4>>, 1) >>,
       << HexFloat(<<1, 0, 0, 0, 0, 0, 0, 0, 0, 0, 0, 0, 0, 0>>, 1),
          HexFloat(<<1, 0, 0, 0, 0, 0, 0, 0, 0, 0, 0, 0, 0, 0>>, 2) >>,
       << HexFloat(<<1, 2, 9, 3, 4, 15, 0, 9, 7, 9, 10, 3, 7, 1>>, 1),
          HexFloat(<<1, 5, 9, 0, 11, 14, 1, 3, 2, 6, 3, 8, 7, 0>>, 2) >>,
       << HexFloat(<<1, 4, 10, 14, 0, 0, 13, 1, 12, 15, 13, 14, 11, 4>>, 1),
          HexFloat(<<1, 10, 11, 10, 6, 6, 5, 14, 5, 11, 2, 0, 10, 13>>, 2) >>,
       << HexFloat(<<1, 6, 7, 5, 7, 6, 7, 15, 5, 4, 0, 4, 2, 13>>, 1),
          HexFloat(<<1, 15, 8, 6, 6, 4, 3, 6, 9, 10, 13, 2, 4, 5>>, 2) >>,
       << HexFloat(<<1, 8, 0, 0, 0, 0, 0, 0, 0, 0, 0, 0, 0, 0>>, 1),
          HexFloat(<<1, 2, 0, 0, 0, 0, 0, 0, 0, 0, 0, 0, 0, 0>>, 3) >>,
       << HexFloat(<<1, 9, 5, 12, 0, 1, 10, 3, 9, 15, 11, 13, 6, 9>>, 1),
          HexFloat(<<1, 4, 1, 8, 12, 11, 1, 9, 1, 6, 8, 3, 15, 4>>, 3) >>,
       << HexFloat(<<1, 0, 0, 0, 0, 0, 0, 0, 0, 0, 0, 0, 0, 0>>, 2),
          HexFloat(<<1, 0, 0, 0, 0, 0, 0, 0, 0, 0, 0, 0, 0, 0>>, 4) >>,
       << HexFloat(<<1, 2, 9, 3, 4, 15, 0, 9, 7, 9, 10, 3, 7, 1>>, 2),
          HexFloat(<<1, 5, 9, 0, 11, 14, 1, 3, 2, 6, 3, 8, 7, 0>>, 4) >>,
       << HexFloat(<<1, 3, 0, 5, 0, 1, 3, 10, 11, 7, 12, 14, 0, 15>>, 2),
          HexFloat(<<1, 6, 9, 11, 14, 4, 7, 12, 3, 9, 5, 4, 7, 3>>, 4) >>,
       << HexFloat(<<1, 4, 0, 0, 0, 0, 0, 0, 0, 0, 0, 0, 0, 0>>, 2),
          HexFloat(<<1, 9, 0, 0, 0, 0, 0, 0, 0, 0, 0, 0, 0, 0>>, 4) >>,
       << HexFloat(<<1, 4, 10, 14, 0, 0, 13, 1, 12, 15, 13, 14, 11, 4>>, 2),
          HexFloat(<<1, 10, 11, 10, 6, 6, 5, 14, 5, 11, 2, 0, 10, 13>>, 4) >>,
       << HexFloat(<<1, 6, 7, 5, 7, 6, 7, 15, 5, 4, 0, 4, 2, 13>>, 2),
          HexFloat(<<1, 15, 8, 6, 6, 4, 3, 6, 9, 10, 13, 2, 4, 5>>, 4) >>,
       << HexFloat(<<1, 8, 0, 0, 0, 0, 0, 0, 0, 0, 0, 0, 0, 0>>, 2),
          HexFloat(<<1, 2, 0, 0, 0, 0, 0, 0, 0, 0, 0, 0, 0, 0>>, 5) >>,
       << HexFloat(<<1, 9, 5, 12, 0, 1, 10, 3, 9, 15, 11, 13, 6, 9>>, 2),
          HexFloat(<<1, 4, 1, 8, 12, 11, 1, 9, 1, 6, 8, 3, 15, 4>>, 5) >>,
       << HexFloat(<<1, 11, 13, 12, 15, 6, 8, 14, 3, 6, 7, 5, 2, 10>>, 2),
          HexFloat(<<1, 8, 4, 2, 13, 5, 13, 5, 8, 10, 15, 15, 7, 15>>, 5) >>,
       << HexFloat(<<1, 12, 0, 0, 0, 0, 0, 0, 0, 0, 0, 0, 0, 0>>, 2),
          HexFloat(<<1, 8, 8, 0, 0, 0, 0, 0, 0, 0, 0, 0, 0, 0>>, 5) >>,
       << HexFloat(<<1, 15, 0, 5, 0, 1, 3, 10, 11, 7, 12, 14, 0, 14>>, 2),
          HexFloat(<<1, 14, 1, 1, 11, 3, 2, 10, 2, 6, 8, 4, 12, 3>>, 5) >>,
       << HexFloat(<<1, 15, 11, 3, 0, 2, 0, 12, 8, 7, 10, 12, 12, 3>>, 2),
          HexFloat(<<1, 15, 6, 6, 11, 13, 5, 7, 3, 3, 2, 14, 2, 12>>, 5) >>,
       << HexFloat(<<1, 0, 0, 0, 0, 0, 0, 0, 0, 0, 0, 0, 0, 0>>, 3),
          HexFloat(<<1, 0, 0, 0, 0, 0, 0, 0, 0, 0, 0, 0, 0, 0>>, 6) >>,
       << HexFloat(<<1, 0, 13, 8, 1, 8, 13, 15, 7, 15, 0, 3, 2, 2>>, 3),
          HexFloat(<<1, 1, 11, 11, 9, 8, 5, 14, 11, 7, 1, 6, 4, 8>>, 6) >>,
       << HexFloat(<<1, 2, 0, 0, 0, 0, 0, 0, 0, 0, 0, 0, 0, 0>>, 3),
          HexFloat(<<1, 4, 4, 0, 0, 0, 0, 0, 0, 0, 0, 0, 0, 0>>, 6) >>,
       << HexFloat(<<1, 2, 9, 3, 4, 15, 0, 9, 7, 9, 10, 3, 7, 1>>, 3),
          HexFloat(<<1, 5, 9, 0, 11, 14, 1, 3, 2, 6, 3, 8, 7, 0>>, 6) >>,
       << HexFloat(<<1, 3, 0, 5, 0, 1, 3, 10, 11, 7, 12, 14, 0, 15>>, 3),
          HexFloat(<<1, 6, 9, 11, 14, 4, 7, 12, 3, 9, 5, 4, 7, 3>>, 6) >>,
       << HexFloat(<<1, 4, 0, 0, 0, 0, 0, 0, 0, 0, 0, 0, 0, 0>>, 3),
          HexFloat(<<1, 9, 0, 0, 0, 0, 0, 0, 0, 0, 0, 0, 0, 0>>, 6) >>,
       << HexFloat(<<1, 4, 10, 14, 0, 0, 13, 1, 12, 15, 13, 14, 11, 4>>, 3),
          HexFloat(<<1, 10, 11, 10, 6, 6, 5, 14, 5, 11, 2, 0, 10, 13>>, 6) >>,
       << HexFloat(<<1, 6, 3, 0, 8, 1, 6, 15, 2, 11, 12, 5, 11, 12>>, 3),
          HexFloat(<<1, 14, 12, 5, 15, 6, 15, 14, 6, 10, 7, 10, 0, 14>>, 6) >>,
       << HexFloat(<<1, 6, 7, 5, 7, 6, 7, 15, 5, 4, 0, 4, 2, 13>>, 3),
          HexFloat(<<1, 15, 8, 6, 6, 4, 3, 6, 9, 10, 13, 2, 4, 5>>, 6) >>,
       << HexFloat(<<1, 7, 3, 8, 2, 2, 12, 11, 13, 8, 0, 12, 4, 13>>, 3),
          HexFloat(<<1, 0, 13, 9, 1, 4, 7, 14, 15, 5, 13, 12, 1, 7>>, 7) >>,
       << HexFloat(<<1, 8, 0, 0, 0, 0, 0, 0, 0, 0, 0, 0, 0, 0>>, 3),
          HexFloat(<<1, 2, 0, 0, 0, 0, 0, 0, 0, 0, 0, 0, 0, 0>>, 7) >>,
       << HexFloat(<<1, 9, 5, 12, 0, 1, 10, 3, 9, 15, 11, 13, 6, 9>>, 3),
          HexFloat(<<1, 4, 1, 8, 12, 11, 1, 9, 1, 6, 8, 3, 15, 4>>, 7) >>,
       << HexFloat(<<1, 9, 13, 9, 8, 1, 0, 6, 4, 3, 13, 6, 6, 1>>, 3),
          HexFloat(<<1, 4, 14, 1, 9, 15, 15, 9, 11, 7, 3, 1, 8, 7>>, 7) >>,
       << HexFloat(<<1, 11, 13, 12, 15, 6, 8, 14, 3, 6, 7, 5, 2, 10>>, 3),
          HexFloat(<<1, 8, 4, 2, 13, 5, 13, 5, 8, 10, 15, 15, 7, 15>>, 7) >>,
       << HexFloat(<<1, 12, 0, 0, 0, 0, 0, 0, 0, 0, 0, 0, 0, 0>>, 3),
          HexFloat(<<1, 8, 8, 0, 0, 0, 0, 0, 0, 0, 0, 0, 0, 0>>, 7) >>,
       << HexFloat(<<1, 12, 1, 2, 13, 4, 1, 15, 2, 9, 0, 5, 3, 8>>, 3),
          HexFloat(<<1, 8, 10, 0, 15, 14, 4, 10, 10, 8, 15, 4, 4, 6>>, 7) >>,
       << HexFloat(<<1, 12, 8, 7, 8, 1, 13, 8, 1, 3, 11, 5, 1, 6>>, 3),
          HexFloat(<<1, 9, 6, 15, 6, 1, 0, 11, 12, 0, 7, 15, 0, 0>>, 7) >>,
       << HexFloat(<<1, 14, 0, 0, 0, 0, 0, 0, 0, 0, 0, 0, 0, 0>>, 3),
          HexFloat(<<1, 12, 2, 0, 0, 0, 0, 0, 0, 0, 0, 0, 0, 0>>, 7) >>,
       << HexFloat(<<1, 15, 0, 5, 0, 1, 3, 10, 11, 7, 12, 14, 0, 14>>, 3),
          HexFloat(<<1, 14, 1, 1, 11, 3, 2, 10, 2, 6, 8, 4, 12, 3>>, 7) >>,
       << HexFloat(<<1, 15, 11, 3, 0, 2, 0, 12, 8, 7, 10, 12, 12, 3>>, 3),
          HexFloat(<<1, 15, 6, 6, 11, 13, 5, 7, 3, 3, 2, 14, 2, 12>>, 7) >>,
       << HexFloat(<<1, 0, 0, 0, 0, 0, 0, 0, 0, 0, 0, 0, 0, 0>>, 4),
          HexFloat(<<1, 0, 0, 0, 0, 0, 0, 0, 0, 0, 0, 0, 0, 0>>, 8) >>,
       << HexFloat(<<1, 0, 4, 0, 14, 5, 2, 8, 4, 10, 6, 15, 0, 3>>, 4),
          HexFloat(<<1, 0, 8, 2, 13, 1, 8, 6, 10, 9, 4, 3, 3, 6>>, 8) >>,
       << HexFloat(<<1, 0, 13, 8, 1, 8, 13, 15, 7, 15, 0, 3, 2, 2>>, 4),
          HexFloat(<<1, 1, 11, 11, 9, 8, 5, 14, 11, 7, 1, 6, 4, 8>>, 8) >>,
       << HexFloat(<<1, 2, 0, 0, 0, 0, 0, 0, 0, 0, 0, 0, 0, 0>>, 4),
          HexFloat(<<1, 4, 4, 0, 0, 0, 0, 0, 0, 0, 0, 0, 0, 0>>, 8) >>,
       << HexFloat(<<1, 2, 1, 8, 4, 0, 11, 7, 9, 5, 14, 2, 13, 14>>, 4),
          HexFloat(<<1, 4, 7, 6, 11, 6, 6, 0, 3, 13, 12, 5, 0, 6>>, 8) >>,
       << HexFloat(<<1, 2, 9, 3, 4, 15, 0, 9, 7, 9, 10, 3, 7, 1>>, 4),
          HexFloat(<<1, 5, 9, 0, 11, 14, 1, 3, 2, 6, 3, 8, 7, 0>>, 8) >>,
       << HexFloat(<<1, 3, 0, 5, 0, 1, 3, 10, 11, 7, 12, 14, 0, 15>>, 4),
          HexFloat(<<1, 6, 9, 11, 14, 4, 7, 12, 3, 9, 5, 4, 7, 3>>, 8) >>,
       << HexFloat(<<1, 3, 10, 6, 12, 7, 10, 15, 6, 9, 8, 3, 10, 7>>, 4),
          HexFloat(<<1, 8, 2, 2, 14, 4, 11, 9, 12, 14, 8, 8, 15, 12>>, 8) >>,
       << HexFloat(<<1, 4, 10, 14, 0, 0, 13, 1, 12, 15, 13, 14, 11, 4>>, 4),
          HexFloat(<<1, 10, 11, 10, 6, 6, 5, 14, 5, 11, 2, 0, 10, 13>>, 8) >>,
       << HexFloat(<<1, 4, 14, 5, 11, 8, 14, 10, 10, 8, 13, 7, 13, 15>>, 4),
          HexFloat(<<1, 11, 4, 11, 3, 0, 9, 0, 3, 12, 5, 15, 6, 14>>, 8) >>,
       << HexFloat(<<1, 5, 0, 0, 0, 0, 0, 0, 0, 0, 0, 0, 0, 0>>, 4),
          HexFloat(<<1, 11, 9, 0, 0, 0, 0, 0, 0, 0, 0, 0, 0, 0>>, 8) >>,
       << HexFloat(<<1, 6, 3, 0, 8, 1, 6, 15, 2, 11, 12, 5, 11, 12>>, 4),
          HexFloat(<<1, 14, 12, 5, 15, 6, 15, 14, 6, 10, 7, 10, 0, 14>>, 8) >>,
       << HexFloat(<<1, 6, 7, 5, 7, 6, 7, 15, 5, 4, 0, 4, 2, 13>>, 4),
          HexFloat(<<1, 15, 8, 6, 6, 4, 3, 6, 9, 10, 13, 2, 4, 5>>, 8) >>,
       << HexFloat(<<1, 7, 4, 3, 12, 0, 14, 12, 0, 9, 13, 10, 8, 10>>, 4),
          HexFloat(<<1, 0, 14, 9, 15, 4, 12, 7, 11, 5, 10, 10, 10, 13>>, 9) >>,
       << HexFloat(<<1, 8, 0, 0, 0, 0, 0, 0, 0, 0, 0, 0, 0, 0>>, 4),
          HexFloat(<<1, 2, 0, 0, 0, 0, 0, 0, 0, 0, 0, 0, 0, 0>>, 9) >>,
       << HexFloat(<<1, 9, 4, 4, 2, 5, 4, 15, 3, 14, 8, 4, 11, 3>>, 4),
          HexFloat(<<1, 3, 15, 3, 0, 11, 6, 10, 8, 13, 15, 9, 1, 0>>, 9) >>,
       << HexFloat(<<1, 9, 5, 12, 0, 1, 10, 3, 9, 15, 11, 13, 6, 9>>, 4),
          HexFloat(<<1, 4, 1, 8, 12, 11, 1, 9, 1, 6, 8, 3, 15, 4>>, 9) >>,
       << HexFloat(<<1, 11, 0, 0, 0, 0, 0, 0, 0, 0, 0, 0, 0, 0>>, 4),
          HexFloat(<<1, 6, 12, 8, 0, 0, 0, 0, 0, 0, 0, 0, 0, 0>>, 9) >>,
       << HexFloat(<<1, 12, 8, 7, 8, 1, 13, 8, 1, 3, 11, 5, 1, 6>>, 4),
          HexFloat(<<1, 9, 6, 15, 6, 1, 0, 11, 12, 0, 7, 15, 0, 0>>, 9) >> >>

\* x**2 for a float x that importance returned
float_pow2(x) ==
    IF x = FloatZero THEN FloatZero
    ELSE libm_pow2[CHOOSE i \in DOMAIN libm_pow2 : libm_pow2[i][1] = x][2]

\* the inner loop of init_lengths over WORDS_DICTIONARY.values() (a list: a
\* TermID two words share is counted twice), from position i of the
\* iteration order on; temp starts as the int 0
RECURSIVE SumSquares(_, _, _, _)
RECURSIVE AddSquare(_, _, _, _, _)
\* temp += importance(word, doc_id)**2 for the result imp of the call
AddSquare(doc_id, order, i, temp, imp) ==
    IF imp.exc # "" THEN imp
    ELSE SumSquares(doc_id, order, i + 1, float_add(temp, float_pow2(imp.val)))

SumSquares(doc_id, order, i, temp) ==
    IF i > Len(order) THEN Ok(temp)
    ELSE AddSquare(doc_id, order, i, temp,
                   importance(WORDS_DICTIONARY[order[i]], doc_id))

\* math.sqrt(temp) for the result temp of the inner loop
SqrtOf(temp) == IF temp.exc # "" THEN temp ELSE Ok(math_sqrt(temp.val))

\* LENGTH[doc_id] as init_lengths computes it: math.sqrt(temp)
DocLength(doc_id, order) == SqrtOf(SumSquares(doc_id, order, 1, FloatZero))

----------------------------------------------------------------------------
(* Query *)

\* the words a user may type, and what inp.lower() and term.strip(characters)
\* make of them
RawWords == {"cat", "Dog!", "emu"}

lower == ("cat" :> "cat") @@ ("Dog!" :> "dog!") @@ ("emu" :> "emu")

strip == ("cat" :> "cat") @@ ("dog!" :> "dog") @@ ("emu" :> "emu")

\* tokenize(inp), inp given as the words inp.split() yields
tokenize(inp) == [i \in 1..Len(inp) |-> strip[lower[inp[i]]]]

InVocabulary(term) == term \in DOMAIN WORDS_DICTIONARY

\* the while loop of search(): unknown words are deleted, known ones are
\* appended to query as their TermID
Resolve(input_query) ==
    LET known == SelectSeq(input_query, InVocabulary)
    IN [i \in 1..Len(known) |-> WORDS_DICTIONARY[known[i]]]

\* reduce(set.intersection, sets) over a non-empty list, left to right
RECURSIVE reduce_intersection(_, _, _)
reduce_intersection(sets, i, acc) ==
    IF i > Len(sets) THEN acc
    ELSE reduce_intersection(sets, i + 1, acc \cap sets[i])

\* intersection with set.union in place of set.intersection
intersection_union(sets) == UNION {sets[i] : i \in DOMAIN sets}

intersection(sets) == reduce_intersection(sets, 2, sets[1])

\* [set(REV_INDEX[term].keys()) for term in query]
PostingSets(q) == [i \in 1..Len(q) |-> DOMAIN RevIndexOf(q[i])]

\* the for loop of cos_similarity from position i on: similarity += ...,
\* one rounded addition per query term, in the order of the query
RECURSIVE SimilaritySum(_, _, _, _)
RECURSIVE AddProduct(_, _, _, _, _, _)
\* similarity += idf(word)*importance(word, doc_id) for the results w and
\* imp of the two calls, idf first
AddProduct(q, i, doc_id, acc, w, imp) ==
    IF w.exc # "" THEN w
    ELSE IF imp.exc # "" THEN imp
    ELSE SimilaritySum(q, i + 1, doc_id, float_add(acc, float_mul(w.val, imp.val)))

SimilaritySum(q, i, doc_id, acc) ==
    IF i > Len(q) THEN Ok(acc)
    ELSE IF q[i] \in Range(WORDS_DICTIONARY)
         THEN AddProduct(q, i, doc_id, acc, idf(q[i]), importance(q[i], doc_id))
    ELSE SimilaritySum(q, i + 1, doc_id, acc)

\* LENGTH[doc_id] read through the defaultdict(float)
LengthOf(doc_id) == IF doc_id \in DOMAIN LENGTH THEN LENGTH[doc_id] ELSE FloatZero

\* similarity / LENGTH[doc_id] for the result similarity of the for loop
Normalised(similarity, doc_id) ==
    IF similarity.exc # "" THEN similarity
    ELSE IF LengthOf(doc_id) = FloatZero THEN Raise(FloatDivZero)
    ELSE Ok(float_div(similarity.val, LengthOf(doc_id)))

\* cos_similarity with the division and the return inside the for loop:
\* only the first query term is summed
cos_similarity_first(q, doc_id) ==
    Normalised(SimilaritySum(SubSeq(q, 1, 1), 1, doc_id, FloatZero), doc_id)

\* cos_similarity(query, doc_id): the sum divided by LENGTH[doc_id]; a
\* float division by 0.0 raises ZeroDivisionError
cos_similarity(q, doc_id) ==
    Normalised(SimilaritySum(q, 1, doc_id, FloatZero), doc_id)

\* [(doc_id, cos_similarity(query, doc_id)) for doc_id in relevant_docs],
\* as a map from each candidate to the result of its call
RECURSIVE ScoreOf(_, _)
ScoreOf(docs, q) ==
    IF docs = {} THEN EmptyDict
    ELSE LET d == CHOOSE x \in docs : TRUE
         IN (d :> cos_similarity(q, d)) @@ ScoreOf(docs \ {d}, q)

\* the orders sorted(..., key=lambda doc: doc[1], reverse=True) can return:
\* the sort is stable, and the order it starts from is the iteration order
\* of a set; score maps each candidate to its score
Rankings(docs, score) ==
    {s \in [1..Cardinality(docs) -> docs] :
        /\ \A i, j \in DOMAIN s : i # j => s[i] # s[j]
        /\ \A i \in DOMAIN s : i < Len(s) => ~float_lt(score[s[i]], score[s[i + 1]])}

\* the dicts docs_reverse = dict(map(reversed, DOCS.items())) can be: when
\* several names map to one DocID the name that comes last in the iteration
\* order of DOCS wins, and that order is not fixed by the language
RECURSIVE ReverseDicts(_)
ReverseDicts(ids) ==
    IF ids = {} THEN {EmptyDict}
    ELSE LET id == CHOOSE x \in ids : TRUE
         IN {(id :> name) @@ rev :
                name \in {n \in DOMAIN DOCS : DOCS[n] = id},
                rev \in ReverseDicts(ids \ {id})}

docs_reverse == ReverseDicts(Range(DOCS))

\* the print loop over the dict rev: one (score, filename) line per entry of
\* ranked until a DocID without a name raises KeyError
RECURSIVE Emit(_, _, _, _)
Emit(ranked, i, printed, rev) ==
    IF i > Len(ranked) THEN [exc |-> "", printed |-> printed]
    ELSE IF ranked[i][1] \notin DOMAIN rev
         THEN [exc |-> KeyErrorName, printed |-> printed]
    ELSE Emit(ranked, i + 1,
              Append(printed, <<ranked[i][2], rev[ranked[i][1]]>>), rev)

----------------------------------------------------------------------------
(* Input files *)

TermIdOf == ("cat" :> "1") @@ ("dog" :> "2")

\* a term file for the vocabulary {cat, dog}
VocabularyFile == << <<"cat", TermIdOf["cat"]>>, <<"dog", TermIdOf["dog"]>> >>

\* a document file of k lines: doc1 1, doc2 2, ...
DocsFileOf(k) == [i \in 1..k |-> <<DocNames[i], Digits[i + 1]>>]

\* the entry lines of one block: c[i] is the frequency of DocID i, 0 for none
RECURSIVE EntryLines(_, _)
EntryLines(c, i) ==
    IF i > MaxDocs THEN <<>>
    ELSE (IF c[i] = 0 THEN <<>> ELSE << <<Digits[i + 1], Digits[c[i] + 1]>> >>)
         \o EntryLines(c, i + 1)

\* a block: its header line and its entry lines, or nothing at all
BlockLines(term_id, present, c) ==
    IF present THEN << <<term_id>> >> \o EntryLines(c, 1) ELSE <<>>

\* the frequencies of a block: a word occurs once in a document that holds
\* it, or first times in document 1
BlockChoices(first) ==
    {c \in [1..MaxDocs -> {0, 1, first}] : \A i \in 2..MaxDocs : c[i] <= 1}

\* a TermID of the postings file that no word of the term file maps to
OtherTermId == "9"

\* the lines a raw postings file is made of: headers (one of them for a
\* TermID outside the vocabulary), entries, an entry with a non-integer
\* frequency and an entry with a third token
RawPostingLines ==
    { <<"1">>, <<"2">>, <<OtherTermId>>, <<"1", "1">>, <<"2", "1">>,
      <<"1", "x">>, <<"1", "1", "x">> }

RawPostingsFiles ==
    UNION { [1..n -> RawPostingLines] : n \in 0..MaxLines }

RawWordsFiles ==
    { VocabularyFile,
      << <<"cat", "1">>, <<"dog">> >>,
      << <<"cat", "1", "x">> >> }

\* document files: two documents, two names for one DocID, and two
\* malformed files
RawDocsFiles ==
    { DocsFileOf(2),
      << <<"doc1", "1">>, <<"doc2", "1">> >>,
      << <<"doc1", "1">>, <<"doc2">> >>,
      << <<"doc1", "1", "x">> >> }

\* the state main() starts in: module-level tables empty, N = 0
InitTables ==
    /\ pc = "init_docs_dict"
    /\ error = ""
    /\ N = 0
    /\ WORDS_DICTIONARY = EmptyDict
    /\ REV_INDEX = EmptyDict
    /\ DOC_FREQ = EmptyDict
    /\ LENGTH = EmptyDict
    /\ DOCS = EmptyDict
    /\ raw_query = <<>>
    /\ query = <<>>
    /\ relevant_docs = {}
    /\ scores = <<>>
    /\ output = <<>>
    /\ outcome = ""

\* the numbers of lines of a document file, the usual one first
DocsFileSizes == <<MaxDocs>> \o [i \in 1..MaxDocs |-> MaxDocs - i] \o <<MaxNames>>

\* well-formed files: the documents 1..MaxDocs less the last few or the
\* documents 1..MaxNames, the vocabulary {cat, dog}, for each of its TermIDs
\* either no block or a block over any DocIDs of 1..MaxDocs (a DocID may
\* have postings and no name, a name no postings), and possibly a block of
\* one entry for OtherTermId
Init ==
    /\ \E k \in DOMAIN DocsFileSizes : docsFile = DocsFileOf(DocsFileSizes[k])
    /\ wordsFile = VocabularyFile
    /\ \E p1, p2 \in BOOLEAN, c1 \in BlockChoices(MaxFreq), c2 \in BlockChoices(1) :
          /\ ~p1 => \A i \in 1..MaxDocs : c1[i] = 0
          /\ ~p2 => \A i \in 1..MaxDocs : c2[i] = 0
          /\ \E p9 \in BOOLEAN :
                postingsFile = BlockLines(TermIdOf["cat"], p1, c1)
                               \o BlockLines(TermIdOf["dog"], p2, c2)
                               \o BlockLines(OtherTermId, p9,
                                             [i \in 1..MaxDocs |-> IF i = 1 THEN 1 ELSE 0])
    /\ InitTables

\* files of arbitrary lines, malformed ones included
InitRaw ==
    /\ docsFile \in RawDocsFiles
    /\ wordsFile \in RawWordsFiles
    /\ postingsFile \in RawPostingsFiles
    /\ InitTables

----------------------------------------------------------------------------
(* Actions: the calls of main(), in order *)

Abort(e) == pc' = "aborted" /\ error' = e

init_docs_dict ==
    /\ pc = "init_docs_dict"
    /\ LET r == LoadMapping(docsFile, 1, DOCS)
       IN /\ DOCS' = r.dict
          /\ IF r.exc # "" THEN Abort(r.exc)
             ELSE pc' = "init_words_id_dict" /\ error' = error
    /\ UNCHANGED <<files, N, WORDS_DICTIONARY, REV_INDEX, DOC_FREQ, LENGTH, locals>>

init_words_id_dict ==
    /\ pc = "init_words_id_dict"
    /\ LET r == LoadMapping(wordsFile, 1, WORDS_DICTIONARY)
       IN /\ WORDS_DICTIONARY' = r.dict
          /\ IF r.exc # "" THEN Abort(r.exc)
             ELSE pc' = "init_no_docs" /\ error' = error
    /\ UNCHANGED <<files, N, DOCS, REV_INDEX, DOC_FREQ, LENGTH, locals>>

\* N = len(opened_file.readlines())
init_no_docs ==
    /\ pc = "init_no_docs"
    /\ N' = Len(docsFile)
    /\ pc' = "init_reverse_index"
    /\ UNCHANGED <<files, error, WORDS_DICTIONARY, DOCS, REV_INDEX, DOC_FREQ, LENGTH, locals>>

init_reverse_index ==
    /\ pc = "init_reverse_index"
    /\ LET r == LoadReverseIndex(postingsFile, 1, NoneKey, REV_INDEX)
       IN /\ REV_INDEX' = r.idx
          /\ IF r.exc # "" THEN Abort(r.exc)
             ELSE pc' = "init_doc_freq" /\ error' = error
    /\ UNCHANGED <<files, N, WORDS_DICTIONARY, DOCS, DOC_FREQ, LENGTH, locals>>

init_doc_freq ==
    /\ pc = "init_doc_freq"
    /\ REV_INDEX' = RevIndexTouched
    /\ DOC_FREQ' = DocFreqTable
    /\ pc' = "init_lengths"
    /\ UNCHANGED <<files, error, N, WORDS_DICTIONARY, DOCS, LENGTH, locals>>

\* the outer loop of init_lengths, as a map from each DocID to the result
\* of its pass
RECURSIVE DocLengths(_, _)
DocLengths(docs, order) ==
    IF docs = {} THEN EmptyDict
    ELSE LET d == CHOOSE x \in docs : TRUE
         IN (d :> DocLength(d, order)) @@ DocLengths(docs \ {d}, order)

\* LENGTH after the loop of init_lengths has stored the documents of done
LengthsStored(done, lengths) ==
    [d \in (DOMAIN LENGTH) \cup done |->
        IF d \in done THEN lengths[d].val ELSE LENGTH[d]]

\* LENGTH[doc_id] = math.sqrt(temp) for every value of DOCS, one document
\* after the other in the iteration order of DOCS, the words of each in the
\* iteration order of WORDS_DICTIONARY; when idf raises for a document, the
\* documents visited before it have their LENGTH stored
init_lengths ==
    /\ pc = "init_lengths"
    /\ \E order \in KeyOrders(WORDS_DICTIONARY) :
         \E lengths \in {DocLengths(Range(DOCS), order)} :
            LET failing == {d \in Range(DOCS) : lengths[d].exc # ""}
            IN IF failing # {}
               THEN \E d \in failing, done \in SUBSET (Range(DOCS) \ failing) :
                      /\ Abort(lengths[d].exc)
                      /\ LENGTH' = LengthsStored(done, lengths)
               ELSE /\ LENGTH' = LengthsStored(Range(DOCS), lengths)
                    /\ pc' = "search"
                    /\ error' = error
    /\ UNCHANGED <<files, N, WORDS_DICTIONARY, DOCS, REV_INDEX, DOC_FREQ, locals>>

RawQueries == UNION { [1..n -> RawWords] : n \in 0..MaxQueryLen }

\* the ways search() can end for the resolved query q, its candidates docs
\* and the results of their cos_similarity calls, each as the values the
\* locals, error and LENGTH have at the end
ScoredEnds(q, docs, result) ==
    LET failing == {d \in docs : result[d].exc # ""}
        start == [query |-> q, relevant_docs |-> relevant_docs, scores |-> scores,
                  output |-> output, outcome |-> outcome,
                  error |-> error, LENGTH |-> LENGTH]
    IN IF q = <<>>
       THEN \* print "No query terms."; sys.exit()
            {[start EXCEPT !.outcome = "No query terms."]}
       ELSE IF docs = {}
       THEN {[start EXCEPT !.relevant_docs = docs,
                           !.outcome = "No doc matched all query terms."]}
       ELSE IF failing # {}
       THEN \* the first candidate whose score raises, in the iteration
            \* order of the set; LENGTH[doc_id] has inserted its key when
            \* the division raises
            {[start EXCEPT !.relevant_docs = docs,
                           !.error = result[d].exc,
                           !.LENGTH = IF /\ result[d].exc = FloatDivZero
                                         /\ d \notin DOMAIN LENGTH
                                      THEN DictSet(LENGTH, d, FloatZero)
                                      ELSE LENGTH,
                           !.outcome = "exception"] : d \in failing}
       ELSE {LET ranked == [i \in 1..Len(order) |->
                             <<order[i], result[order[i]].val>>]
                 printed == Emit(ranked, 1, <<>>, rev)
             IN [start EXCEPT !.relevant_docs = docs,
                              !.scores = ranked,
                              !.output = printed.printed,
                              !.error = printed.exc,
                              !.outcome = IF printed.exc # "" THEN "exception"
                                          ELSE "Score: filename"] :
               order \in Rankings(docs, [d \in docs |-> result[d].val]),
               rev \in docs_reverse}

\* the ways search() can end for the words inp typed at the prompt
SearchEnds(inp) ==
    LET q == Resolve(tokenize(inp))
        docs == intersection(PostingSets(q))
    IN ScoredEnds(q, docs, ScoreOf(docs, q))

\* search(): one query, from the prompt to the last line printed
search ==
    /\ pc = "search"
    /\ \E inp \in RawQueries :
         \E end \in SearchEnds(inp) :
            /\ raw_query' = inp
            /\ query' = end.query
            /\ relevant_docs' = end.relevant_docs
            /\ scores' = end.scores
            /\ output' = end.output
            /\ outcome' = end.outcome
            /\ error' = end.error
            /\ LENGTH' = end.LENGTH
    /\ pc' = "done"
    /\ UNCHANGED <<files, N, WORDS_DICTIONARY, DOCS, REV_INDEX, DOC_FREQ>>

Next ==
    \/ init_docs_dict
    \/ init_words_id_dict
    \/ init_no_docs
    \/ init_reverse_index
    \/ init_doc_freq
    \/ init_lengths
    \/ search

Spec == Init /\ [][Next]_vars

SpecRaw == InitRaw /\ [][Next]_vars

----------------------------------------------------------------------------
(* Vocabulary of the properties *)

Loaded == pc \in {"init_lengths", "search", "done"}

Vocabulary == Range(WORDS_DICTIONARY)

\* every DocID that has a posting under some key of REV_INDEX
PostingDocs == UNION {DOMAIN REV_INDEX[t] : t \in DOMAIN REV_INDEX}

HasPosting(t, d) == t \in DOMAIN REV_INDEX /\ d \in DOMAIN REV_INDEX[t]

\* the block an entry line of the postings file belongs to
HeaderAt(i) ==
    LET hs == {j \in 1..(i - 1) : Len(postingsFile[j]) = 1}
    IN IF hs = {} THEN NoneKey
       ELSE postingsFile[CHOOSE j \in hs : \A h \in hs : h <= j][1]

\* the DocIDs the postings file lists under the header t
FileDocs(t) ==
    {postingsFile[i][1] : i \in {j \in DOMAIN postingsFile :
                                   Len(postingsFile[j]) > 1 /\ HeaderAt(j) = t}}

DocFreqOf(t) == IF t \in DOMAIN DOC_FREQ THEN DOC_FREQ[t] ELSE 0

Count(s, x) == Cardinality({i \in DOMAIN s : s[i] = x})

Reorderings(s) ==
    {p \in [DOMAIN s -> Range(s)] : \A x \in Range(s) : Count(p, x) = Count(s, x)}

NonIncreasing(ranked) ==
    \A i \in DOMAIN ranked :
        i < Len(ranked) => ~float_lt(ranked[i][2], ranked[i + 1][2])

Ranked == "Score: filename"
NoTerms == "No query terms."
NoMatch == "No doc matched all query terms."

RECURSIVE FloorLog2(_)
FloorLog2(q) == IF q < 2 THEN 0 ELSE 1 + FloorLog2(q \div 2)

\* 1.0 as a fixed-point number of 14 fractional binary digits
FixOne == 2^14

\* the fractional part of log2, digit by digit: x is in [1, 2) scaled by
\* FixOne; squaring doubles the logarithm
RECURSIVE Log2Frac(_, _, _)
Log2Frac(x, bit, acc) ==
    IF 2^bit > FixOne THEN acc
    ELSE LET sq == (x * x) \div FixOne
         IN IF sq >= 2 * FixOne
            THEN Log2Frac(sq \div 2, bit + 1, acc + FixOne \div 2^bit)
            ELSE Log2Frac(sq, bit + 1, acc)

\* log2(q) for an integer q >= 1 in thousandths, from integers alone
Log2Milli(q) ==
    LET e == FloorLog2(q)
        x == (q * FixOne) \div 2^e
        fx == e * FixOne + Log2Frac(x, 1, 0)
    IN (fx * 1000 + FixOne \div 2) \div FixOne

RECURSIVE BigToInt(_)
BigToInt(a) == IF a = <<>> THEN 0 ELSE a[1] + Base * BigToInt(Tail(a))

\* a float below 2^20 in thousandths, rounded
Milli(x) ==
    IF x.man = <<>> THEN 0
    ELSE BigToInt(BigShr(BigAdd(BigMulSmall(x.man, 1000),
                                BigShl(<<1>>, 0 - x.exp - 1)),
                         0 - x.exp))

\* the distance of two floats above 0.0, in units of the last binary digit
\* of the smaller one
UlpsApart(a, b) ==
    IF float_lt(a, b)
    THEN BigSub(BigShl(b.man, b.exp - a.exp), a.man)
    ELSE BigSub(BigShl(a.man, a.exp - b.exp), b.man)

\* a and b are equal or at most k units of the last binary digit apart
WithinUlps(a, b, k) ==
    \/ a = b
    \/ /\ a # FloatZero
       /\ b # FloatZero
       /\ ~BigLess(BigFromInt(k), UlpsApart(a, b))

----------------------------------------------------------------------------
(* C1 *)

\* C1: AND semantics. After a query with at least one resolved term, the
\* candidate set is exactly the set of DocIDs that have a posting under
\* every resolved query TermID, and every document of the ranked result has
\* a posting under every resolved query TermID.
AndSemantics ==
    (pc = "done" /\ query # <<>>) =>
        /\ relevant_docs =
              {d \in PostingDocs : \A i \in DOMAIN query : HasPosting(query[i], d)}
        /\ \A r \in DOMAIN scores :
              \A i \in DOMAIN query : HasPosting(query[i], scores[r][1])
        /\ Len(output) <= Len(scores)
        /\ \A r \in DOMAIN output : DOCS[output[r][2]] = scores[r][1]

\* a ranked answer to a query of two distinct terms that leaves out a
\* document holding only one of them
AndSemanticsWitness ==
    /\ pc = "done"
    /\ outcome = Ranked
    /\ Cardinality(Range(query)) = 2
    /\ output # <<>>
    /\ \E d \in PostingDocs \ relevant_docs :
          \E i \in DOMAIN query : HasPosting(query[i], d)

----------------------------------------------------------------------------
(* C2 *)

ScenarioA ==
    /\ docsFile = DocsFileOf(3)
    /\ wordsFile = VocabularyFile
    /\ postingsFile = << <<"1">>, <<"1", "2">>, <<"3", "1">>,
                         <<"2">>, <<"2", "1">>, <<"3", "1">> >>

\* C2: scenario A. With 3 documents, cat -> {doc1: 2, doc3: 1} and
\* dog -> {doc2: 1, doc3: 1}, the query "cat dog" prints exactly doc3 with a
\* defined, strictly positive score.
ScenarioAReturnsDoc3 ==
    (ScenarioA /\ pc = "done" /\ tokenize(raw_query) = <<"cat", "dog">>) =>
        /\ error = ""
        /\ outcome = Ranked
        /\ Len(output) = 1
        /\ output[1][2] = "doc3"
        /\ float_lt(FloatZero, output[1][1])

----------------------------------------------------------------------------
(* C3 *)

\* C3: every query ends in exactly one of three outcomes and never in an
\* exception: "no query terms" iff no token resolves, else "no matching
\* documents" iff the intersection is empty, else a non-empty ranked list
\* with a score for every candidate.
ThreeOutcomes ==
    pc = "done" =>
        LET resolved == Resolve(tokenize(raw_query))
        IN /\ error = ""
           /\ outcome \in {NoTerms, NoMatch, Ranked}
           /\ outcome = NoTerms <=> resolved = <<>>
           /\ outcome = NoMatch <=>
                 (resolved # <<>> /\ intersection(PostingSets(resolved)) = {})
           /\ outcome = Ranked =>
                 /\ output # <<>>
                 /\ Len(output) = Cardinality(relevant_docs)

----------------------------------------------------------------------------
(* C4 *)

\* C4: for every vocabulary term t with 0 < DOC_FREQ[t] <= N, idf(t) is
\* log2 of the exact ratio N / DOC_FREQ[t]: 0 when DOC_FREQ[t] = N and
\* strictly positive when DOC_FREQ[t] < N.
IdfExactRatio ==
    Loaded =>
        \A t \in Vocabulary :
            (0 < DocFreqOf(t) /\ DocFreqOf(t) <= N) =>
                /\ idf(t).exc = ""
                /\ DocFreqOf(t) = N => idf(t).val = FloatZero
                /\ DocFreqOf(t) < N => float_lt(FloatZero, idf(t).val)
                /\ LET exact == Log2Milli(N) - Log2Milli(DocFreqOf(t))
                   IN Milli(idf(t).val) \in (exact - 1)..(exact + 1)

----------------------------------------------------------------------------
(* C5 *)

\* C5 as stated: for a fixed index and candidate document, the score is the
\* same for every permutation of the resolved query, and appending a
\* duplicate of a term of the query never decreases it.
OrderAndDuplicates ==
    pc = "done" =>
        /\ \A d \in relevant_docs :
              LET once == cos_similarity(query, d)
              IN /\ \A p \in Reorderings(query) : cos_similarity(p, d) = once
                 /\ \A i \in DOMAIN query :
                       LET more == cos_similarity(Append(query, query[i]), d)
                       IN /\ more.exc = once.exc
                          /\ ~float_lt(more.val, once.val)
        /\ \A r \in DOMAIN scores :
              \A p \in Reorderings(query) :
                  cos_similarity(p, scores[r][1]) = Ok(scores[r][2])

\* C5 amended: for a fixed index and candidate document, every permutation
\* of the resolved query ends the same way (a score, or the same exception);
\* the score is the same for every permutation of a query of at most two
\* terms, and for a query of n terms the scores of two permutations are at
\* most 2n units of the last binary digit apart (the sum is rounded after
\* every term, in the order of the query); appending a duplicate of a term
\* of the query never decreases the score.
OrderUpToRounding ==
    pc = "done" =>
        /\ \A d \in relevant_docs :
              LET once == cos_similarity(query, d)
              IN /\ \A p \in Reorderings(query) :
                       LET other == cos_similarity(p, d)
                       IN /\ other.exc = once.exc
                          /\ Len(query) <= 2 => other.val = once.val
                          /\ WithinUlps(other.val, once.val, 2 * Len(query))
                 /\ \A i \in DOMAIN query :
                       LET more == cos_similarity(Append(query, query[i]), d)
                       IN /\ more.exc = once.exc
                          /\ ~float_lt(more.val, once.val)
        /\ \A r \in DOMAIN scores :
              cos_similarity(query, scores[r][1]) = Ok(scores[r][2])

\* a ranked query of three terms with a candidate whose score is another
\* float for another order of the same terms, and grows when a term is
\* typed once more
OrderUpToRoundingWitness ==
    /\ pc = "done"
    /\ outcome = Ranked
    /\ Len(query) = 3
    /\ \E r \in DOMAIN scores :
          /\ \E p \in Reorderings(query) :
                cos_similarity(p, scores[r][1]).val # scores[r][2]
          /\ \E i \in DOMAIN query :
                float_lt(scores[r][2],
                         cos_similarity(Append(query, query[i]), scores[r][1]).val)

----------------------------------------------------------------------------
(* C6 *)

\* C6: when the candidate set is non-empty, the emitted sequence holds each
\* candidate DocID exactly once, each under the document name that maps to
\* it, with non-increasing scores.
RankedEmit ==
    (pc = "done" /\ relevant_docs # {}) =>
        /\ Len(scores) = Cardinality(relevant_docs)
        /\ {scores[r][1] : r \in DOMAIN scores} = relevant_docs
        /\ Len(output) = Len(scores)
        /\ \A r \in DOMAIN output :
              /\ output[r][2] \in DOMAIN DOCS
              /\ DOCS[output[r][2]] = scores[r][1]
              /\ output[r][1] = scores[r][2]
        /\ NonIncreasing(scores)

----------------------------------------------------------------------------
(* C7 *)

\* C7 as stated: after loading, DOC_FREQ[t] is the number of DocID entries
\* under t in REV_INDEX for every key of REV_INDEX and every value of
\* WORDS_DICTIONARY.
DocFreqAllTermIds ==
    Loaded =>
        \A t \in (DOMAIN REV_INDEX) \cup Vocabulary :
            DocFreqOf(t) = Cardinality(DOMAIN RevIndexOf(t))

\* C7 amended: after loading, DOC_FREQ has exactly the values of
\* WORDS_DICTIONARY as keys, and for each of them DOC_FREQ[t] is the number
\* of DocID entries under t in REV_INDEX, which is the number of DocIDs the
\* postings file lists under t (0 for a term with no entries).
DocFreqVocabulary ==
    Loaded =>
        /\ DOMAIN DOC_FREQ = Vocabulary
        /\ \A t \in Vocabulary :
              /\ t \in DOMAIN REV_INDEX
              /\ DOC_FREQ[t] = Cardinality(DOMAIN REV_INDEX[t])
              /\ DOC_FREQ[t] = Cardinality(FileDocs(t))

\* a loaded index with a term of count 0, a term of positive count and a
\* key of REV_INDEX outside the vocabulary
DocFreqVocabularyWitness ==
    /\ Loaded
    /\ \E t \in Vocabulary : DOC_FREQ[t] = 0
    /\ \E t \in Vocabulary : DOC_FREQ[t] > 0
    /\ \E t \in DOMAIN REV_INDEX : t \notin Vocabulary

----------------------------------------------------------------------------
(* C8 *)

MalformedMapping(f) == \E i \in DOMAIN f : Len(f[i]) # 2

MalformedPostings ==
    \E i \in DOMAIN postingsFile :
        LET line == postingsFile[i]
        IN ~ \/ Len(line) = 1
             \/ Len(line) = 2 /\ IsInt(line[2]) /\ HeaderAt(i) # NoneKey

\* C8: loading is all-or-nothing. If a mapping line has not exactly two
\* tokens, or a postings line is neither a header nor a DocID with an
\* integer frequency inside a block, startup aborts and no query runs.
LoadAllOrNothing ==
    (MalformedMapping(docsFile) \/ MalformedMapping(wordsFile) \/ MalformedPostings)
        => /\ pc \notin {"search", "done"}
           /\ outcome = ""

----------------------------------------------------------------------------
(* C9 *)

\* C9: a query is read-only on the shared tables: REV_INDEX,
\* WORDS_DICTIONARY, DOCS, DOC_FREQ, LENGTH and N are the same after
\* search() as before it, whichever way the query ends.
QueryReadOnly == [][pc = "search" => tables' = tables]_vars

----------------------------------------------------------------------------
(* C10 *)

\* C10: the quotient N / DOC_FREQ[t] is never evaluated with
\* DOC_FREQ[t] = 0, neither by init_lengths nor by a query: no run raises
\* the integer ZeroDivisionError of idf.
NoZeroDocFreqQuotient == error # IntDivZero

\* a finished query that names a vocabulary term of document frequency 0,
\* over an index with at least one named document
NoZeroDocFreqQuotientWitness ==
    /\ pc = "done"
    /\ DOCS # EmptyDict
    /\ \E i \in DOMAIN query : DocFreqOf(query[i]) = 0
    /\ \E t \in Vocabulary : DocFreqOf(t) > 0

====
